---- MODULE Spec2Model ----
(***************************************************************************)
(* A model of the try-guard crate: the guard! and verify! macros of        *)
(* src/lib.rs, expanded inside a caller's function body and executed       *)
(* statement by statement.                                                 *)
(*                                                                         *)
(* The caller's function is a sequence of statements (`body`), ending in   *)
(* its tail expression.  Statements are the call-site shapes of the        *)
(* crate's tests and docs: guard!(p); / let foo = verify!(p); /            *)
(* verify!(p)?; / let foo: T = try { ... tail };                           *)
(* Predicates and tail expressions have an observable side effect: their   *)
(* evaluation is recorded in `trace`.                                      *)
(***************************************************************************)
EXTENDS Integers, Sequences, FiniteSets, TLC

VARIABLES
  feature,  \* cfg(feature = "try-trait") at the expansion site
  retType,  \* declared return type of the enclosing function
  body,     \* the statements of the enclosing function
  pc,       \* index of the next statement to execute; Done after the return
  ctx,      \* types of the try blocks currently open, innermost last
  locals,   \* values bound by `let`, in binding order
  ret,      \* the value the function returned, Running before that
  trace,    \* indices of the statements whose expression was evaluated
  hist      \* one record per macro expansion executed: macro, input, outcome

vars == <<feature, retType, body, pc, ctx, locals, ret, trace, hist>>

\* ---------------------------------------------------------------- bounds
MaxLen == 4          \* statements before the function's tail expression

\* ---------------------------------------------------------------- values
Unit == [tag |-> "unit"]
I32(n) == [tag |-> "i32", val |-> n]
None == [tag |-> "None"]
Some(x) == [tag |-> "Some", val |-> x]
Ok(x) == [tag |-> "Ok", val |-> x]
Err(x) == [tag |-> "Err", val |-> x]
NoneError == [tag |-> "NoneError"]
CustomError == [tag |-> "CustomError"]
Just(x) == [tag |-> "Just", val |-> x]
Nothing == [tag |-> "Nothing"]
Running == [tag |-> "running"]
Done == 0

\* the integer literals the callers of the crate use as tail values
TailValues == {10, 42}

\* ---------------------------------------------------------------- Try
\* Try::into_result, for Option and for the MyGuard of the crate docs
IntoResult(x) ==
  CASE x.tag = "Some" -> Ok(x.val)
    [] x.tag = "None" -> Err(NoneError)
    [] x.tag = "Just" -> Ok(x.val)
    [] x.tag = "Nothing" -> Err(NoneError)

\* from_error that wraps the error whatever the type is
FromErrorAsResult(ty, e) == Err(e)

\* Try::from_error of the type ty
FromError(ty, e) ==
  CASE ty = "Option" -> None
    [] ty = "Result" -> Err(e)
    [] ty = "MyGuard" -> Nothing

\* Try::from_ok of the type ty
FromOk(ty, x) ==
  CASE ty = "Option" -> Some(x)
    [] ty = "Result" -> Ok(x)
    [] ty = "MyGuard" -> Just(x)

\* the error is propagated without the From conversion
FromNoneErrorUnconverted(ty, e) == e

\* From::from(NoneError) into the error type of ty: Result<_, CustomError>
\* converts, the other types have Error = NoneError
FromNoneError(ty, e) == IF ty = "Result" THEN CustomError ELSE e

\* ---------------------------------------------------------------- programs
Bool == {TRUE, FALSE}
TryTypes == {"Option", "Result"}

GuardStmt(b) == [op |-> "guard", e |-> b]          \* guard!(b);
LetVerifyStmt(b) == [op |-> "verify", e |-> b]     \* let foo = verify!(b);
VerifyTryStmt(b) == [op |-> "verifyq", e |-> b]    \* verify!(b)?;
TryStmt(t) == [op |-> "try", ty |-> t]             \* let foo: t = try {
EndLit(n) == [op |-> "end", k |-> "lit", v |-> n]      \*   n };
EndVerifyTry(b) == [op |-> "end", k |-> "verifyq", e |-> b]  \*   verify!(b)? };
TailStmt(n) == [op |-> "tail", v |-> n]            \* Some(n) / Ok(n) / MyGuard::new(n)

Stmts ==
  {GuardStmt(b) : b \in Bool} \cup {LetVerifyStmt(b) : b \in Bool}
    \cup {VerifyTryStmt(b) : b \in Bool} \cup {TryStmt(t) : t \in TryTypes}
    \cup {EndLit(n) : n \in TailValues} \cup {EndVerifyTry(b) : b \in Bool}

\* nesting depth of try blocks after the first i statements of s, -1 when an
\* end has no matching try
RECURSIVE Depth(_, _)
Depth(s, i) ==
  IF i = 0 THEN 0
  ELSE LET d == Depth(s, i - 1) IN
       IF d < 0 THEN -1
       ELSE IF s[i].op = "try" THEN d + 1
       ELSE IF s[i].op = "end" THEN d - 1
       ELSE d

\* the statement lists that compile: every try block is closed, and the
\* function ends in its tail expression.  A try block is the caller's own
\* nightly syntax: it can be written under either cfg of the macro
Bodies ==
  UNION {
    {s \o <<TailStmt(n)>> : s \in {t \in [1..len -> Stmts] : Depth(t, len) = 0},
                            n \in TailValues}
    : len \in 0..MaxLen}

\* return types for which the expansion type-checks: `return None` needs
\* Option, `None?` any Try type with Error: From<NoneError>
RetTypes(f) == IF f THEN {"Option", "Result", "MyGuard"} ELSE {"Option"}

\* ---------------------------------------------------------------- control
Cur == [pc |-> pc, ctx |-> ctx, locals |-> locals, ret |-> ret]

\* execution proceeds to the next statement
Continue == [Cur EXCEPT !.pc = pc + 1]

\* index of the end of the try block that encloses statement i
RECURSIVE MatchEnd(_, _)
MatchEnd(i, depth) ==
  IF body[i].op = "end"
  THEN IF depth = 0 THEN i ELSE MatchEnd(i + 1, depth - 1)
  ELSE IF body[i].op = "try" THEN MatchEnd(i + 1, depth + 1)
  ELSE MatchEnd(i + 1, depth)

\* the innermost try block evaluates to v, which its `let` binds; execution
\* continues after the block
LeaveTry(v) ==
  [pc |-> MatchEnd(pc, 0) + 1, ctx |-> SubSeq(ctx, 1, Len(ctx) - 1),
   locals |-> Append(locals, v), ret |-> ret]

\* the enclosing function returns v
Return(v) == [pc |-> Done, ctx |-> <<>>, locals |-> locals, ret |-> v]

\* a `?` that always leaves the function, also inside a try block
QuestionExitFunction(x) ==
  Return(FromError(retType, FromNoneError(retType, IntoResult(x).val)))

\* the failing arm of `x?`: leave the innermost try block, or the function
\* when there is none, with from_error(From::from(error))
QuestionExit(x) ==
  LET e == IntoResult(x).val IN
  IF ctx # <<>>
  THEN LeaveTry(FromError(ctx[Len(ctx)], FromNoneError(ctx[Len(ctx)], e)))
  ELSE Return(FromError(retType, FromNoneError(retType, e)))

\* ---------------------------------------------------------------- macros
\* guard! without the negation of its predicate
GuardEffectInverted(f, e) ==
  IF e THEN (IF f THEN QuestionExit(None) ELSE Return(None)) ELSE Continue

\* guard! whose failing branch does not exit
GuardEffectFallThrough(f, e) == Continue

\* guard!(e) under cfg f: if !e { None? } or if !e { return None }
GuardEffect(f, e) ==
  IF ~e THEN (IF f THEN QuestionExit(None) ELSE Return(None)) ELSE Continue

\* verify! without the negation of its predicate
VerifyNoNegation(e) == IF e THEN None ELSE Some(Unit)

\* verify!(e): if !e { None } else { Some(()) }
Verify(e) == IF ~e THEN None ELSE Some(Unit)

\* verify! that shortcuts like guard!
LetVerifyEffectShortcut(e) ==
  IF ~e THEN [Return(None) EXCEPT !.locals = Append(locals, None)]
  ELSE [Cur EXCEPT !.pc = pc + 1, !.locals = Append(locals, Some(Unit))]

\* verify! that keeps the value of an earlier expansion
LetVerifyEffectCached(e) ==
  [Cur EXCEPT !.pc = pc + 1,
              !.locals = Append(locals, IF locals # <<>> THEN locals[Len(locals)]
                                        ELSE IF ~e THEN None ELSE Some(Unit))]

\* let foo = verify!(e);
LetVerifyEffect(e) ==
  [Cur EXCEPT !.pc = pc + 1, !.locals = Append(locals, Verify(e))]

\* verify!(e)?;  the ? applies to the whole expansion
VerifyTryEffect(e) ==
  LET x == Verify(e) IN
  IF IntoResult(x).tag = "Err" THEN QuestionExit(x) ELSE Continue

\* the ? of `verify!(e)?` applied to the else branch of the expansion only
EndEffectElseOnly(s) ==
  IF s.k = "lit" THEN LeaveTry(FromOk(ctx[Len(ctx)], I32(s.v)))
  ELSE IF ~s.e THEN LeaveTry(FromOk(ctx[Len(ctx)], None))
  ELSE LeaveTry(FromOk(ctx[Len(ctx)], Unit))

\* the tail of a try block: its value is wrapped by from_ok
EndEffect(s) ==
  IF s.k = "lit" THEN LeaveTry(FromOk(ctx[Len(ctx)], I32(s.v)))
  ELSE LET x == Verify(s.e) IN
       IF IntoResult(x).tag = "Err" THEN QuestionExit(x)
       ELSE LeaveTry(FromOk(ctx[Len(ctx)], IntoResult(x).val))

\* the tail expression of the function
TailEffect(n) == Return(FromOk(retType, I32(n)))

\* an expansion that mentions $e twice
EvalPredTwice == Append(Append(trace, pc), pc)

\* the macro's `if !$e` evaluates the predicate of the statement at pc, once
EvalPred == Append(trace, pc)

Classify(eff) == IF eff = Continue THEN "continue" ELSE "exit"

Apply(eff) ==
  /\ pc' = eff.pc
  /\ ctx' = eff.ctx
  /\ locals' = eff.locals
  /\ ret' = eff.ret
  /\ UNCHANGED <<feature, retType, body>>

At(o) == pc # Done /\ body[pc].op = o

\* ---------------------------------------------------------------- actions
Init ==
  /\ feature \in Bool
  /\ retType \in RetTypes(feature)
  /\ body \in Bodies
  /\ pc = 1
  /\ ctx = <<>>
  /\ locals = <<>>
  /\ ret = Running
  /\ trace = <<>>
  /\ hist = <<>>

GuardStep ==
  /\ At("guard")
  /\ LET eff == GuardEffect(feature, body[pc].e) IN
       /\ Apply(eff)
       /\ hist' = Append(hist, [macro |-> "guard", e |-> body[pc].e,
                                class |-> Classify(eff)])
  /\ trace' = EvalPred

LetVerifyStep ==
  /\ At("verify")
  /\ LET eff == LetVerifyEffect(body[pc].e) IN
       /\ Apply(eff)
       /\ hist' = Append(hist, [macro |-> "verify", e |-> body[pc].e,
                                class |-> eff.locals[Len(eff.locals)].tag])
  /\ trace' = EvalPred

VerifyTryStep ==
  /\ At("verifyq")
  /\ Apply(VerifyTryEffect(body[pc].e))
  /\ hist' = Append(hist, [macro |-> "verify", e |-> body[pc].e,
                           class |-> Verify(body[pc].e).tag])
  /\ trace' = EvalPred

TryOpenStep ==
  /\ At("try")
  /\ pc' = pc + 1
  /\ ctx' = Append(ctx, body[pc].ty)
  /\ UNCHANGED <<feature, retType, body, locals, ret, trace, hist>>

TryEndStep ==
  /\ At("end")
  /\ Apply(EndEffect(body[pc]))
  /\ hist' = IF body[pc].k = "verifyq"
             THEN Append(hist, [macro |-> "verify", e |-> body[pc].e,
                                class |-> Verify(body[pc].e).tag])
             ELSE hist
  /\ trace' = IF body[pc].k = "verifyq" THEN EvalPred ELSE Append(trace, pc)

TailStep ==
  /\ At("tail")
  /\ Apply(TailEffect(body[pc].v))
  /\ trace' = Append(trace, pc)
  /\ UNCHANGED hist

Next ==
  \/ GuardStep
  \/ LetVerifyStep
  \/ VerifyTryStep
  \/ TryOpenStep
  \/ TryEndStep
  \/ TailStep

Spec == Init /\ [][Next]_vars

\* ---------------------------------------------------------------- properties
\* the absent/failure value of a context of type ty
AbsentOf(ty) ==
  CASE ty = "Option" -> None
    [] ty = "Result" -> Err(CustomError)
    [] ty = "MyGuard" -> Nothing

\* the statement at index i was executed
Executed(i) == \E k \in DOMAIN trace : trace[k] = i

\* statement i is inside a try block
InTry(i) == Depth(body, i) > 0

\* C1: for every boolean b, `let foo = verify!(b)` binds Some(()) if and only
\* if b is true, and None if and only if b is false.
C1_VerifyIff ==
  [][At("verify") =>
       /\ Len(locals') = Len(locals) + 1
       /\ (locals'[Len(locals')] = Some(Unit) <=> body[pc].e)
       /\ (locals'[Len(locals')] = None <=> ~body[pc].e)]_vars

C1_Witness ==
  /\ pc = Done
  /\ body[1] = LetVerifyStmt(TRUE)
  /\ body[2] = LetVerifyStmt(FALSE)
  /\ locals = <<Some(Unit), None>>

\* C2: a function returning Option whose body is `guard!(b); Some(v)` returns
\* None when b is false and Some(v) when b is true, under either cfg.
C2_GuardThenTail ==
  (/\ pc = Done
   /\ retType = "Option"
   /\ Len(body) = 2
   /\ body[1].op = "guard")
  => ret = IF body[1].e THEN Some(I32(body[2].v)) ELSE None

C2_Witness ==
  /\ pc = Done
  /\ retType = "Option"
  /\ body = <<GuardStmt(TRUE), TailStmt(10)>>
  /\ ret = Some(I32(10))

\* C3 as stated: whenever the predicate of a guard! is false, the enclosing
\* function terminates immediately with its absent/failure value, wherever
\* the guard appears.
C3_Original ==
  [][(At("guard") /\ ~body[pc].e) =>
       (pc' = Done /\ ret' = AbsentOf(retType))]_vars

\* C3 amended: a false guard leaves the innermost try block around it when
\* try-trait is enabled (the block evaluates to its absent/failure value and
\* execution continues after the block, the function still running);
\* otherwise the enclosing function terminates immediately with its
\* absent/failure value.
C3_GuardLeavesInnermostScope ==
  [][(At("guard") /\ ~body[pc].e) =>
       IF feature /\ ctx # <<>>
       THEN /\ pc' = MatchEnd(pc, 0) + 1
            /\ ret' = Running
            /\ Len(ctx') = Len(ctx) - 1
            /\ locals' = Append(locals, AbsentOf(ctx[Len(ctx)]))
       ELSE /\ pc' = Done
            /\ ret' = AbsentOf(retType)]_vars

\* a false guard inside a try block has run with try-trait enabled, and the
\* function went on to return the value of its own tail expression
C3_Witness ==
  /\ feature
  /\ pc = Done
  /\ body[1].op = "try"
  /\ body[2] = GuardStmt(FALSE)
  /\ body[3].op = "end"
  /\ Len(body) = 4
  /\ locals = <<AbsentOf(body[1].ty)>>
  /\ ret = FromOk(retType, I32(body[4].v))

\* C6: `let foo = verify!(b)` never alters control flow: for both values of
\* b execution continues with the next statement of the same scope, no try
\* block is left and the function does not return.
C6_VerifyNoControlFlow ==
  [][At("verify") => (pc' = pc + 1 /\ ctx' = ctx /\ ret' = ret)]_vars

C6_Witness ==
  /\ pc = 3
  /\ body[1].op = "try"
  /\ body[2] = LetVerifyStmt(FALSE)
  /\ ctx = <<body[1].ty>>
  /\ locals = <<None>>
  /\ ret = Running

\* the last statement of the scope a guard at index i guards: the end of the
\* innermost try block around it, or the tail expression of the function
ScopeEnd(i) == IF InTry(i) THEN MatchEnd(i, 0) ELSE Len(body)

\* C4: when the predicate of a guard! is false, nothing that follows the
\* guard in the guarded scope is evaluated, the scope's tail included.
C4_NothingAfterFalseGuard ==
  \A i \in 1..Len(body) :
    (body[i].op = "guard" /\ ~body[i].e /\ Executed(i)) =>
      \A j \in (i + 1)..ScopeEnd(i) : ~Executed(j)

\* a false guard ran first in a function with statements after it, and the
\* function has returned
C4_Witness ==
  /\ pc = Done
  /\ Len(body) = 3
  /\ body[1] = GuardStmt(FALSE)
  /\ body[2].op = "verify"
  /\ trace = <<1>>
  /\ locals = <<>>

\* C5: with try-trait, a context of type Result<T, CustomError> evaluates to
\* Err(CustomError) when a guard! in it is false, continues past the guard
\* when it is true, and evaluates to Ok(tail value) when it reaches its tail.
C5_ResultContext ==
  [][feature =>
       /\ (At("guard") /\ ctx # <<>> /\ ctx[Len(ctx)] = "Result") =>
            IF body[pc].e
            THEN pc' = pc + 1 /\ locals' = locals /\ ctx' = ctx
            ELSE locals' = Append(locals, Err(CustomError))
       /\ (At("guard") /\ ctx = <<>> /\ retType = "Result") =>
            IF body[pc].e
            THEN pc' = pc + 1 /\ ret' = Running
            ELSE pc' = Done /\ ret' = Err(CustomError)
       /\ (At("end") /\ body[pc].k = "lit" /\ ctx[Len(ctx)] = "Result") =>
            locals' = Append(locals, Ok(I32(body[pc].v)))
       /\ (At("tail") /\ retType = "Result") =>
            ret' = Ok(I32(body[pc].v))]_vars

\* try { guard!(false); 10 } of type Result<i32, CustomError> has been
\* evaluated with try-trait enabled
C5_Witness ==
  /\ feature
  /\ pc = Done
  /\ body[1] = TryStmt("Result")
  /\ body[2] = GuardStmt(FALSE)
  /\ body[3] = EndLit(10)
  /\ locals = <<Err(CustomError)>>

\* C7: the ? of `verify!(b)?` applies to the whole verify result: in an
\* Option context the expression yields () and the context goes on (a try
\* block ending in it is Some(())) when b is true, and the context evaluates
\* to None when b is false; in a context whose error is the custom error
\* built from the absent result, the context evaluates to exactly that
\* custom error when b is false.
C7_VerifyPropagates ==
  [][/\ (At("end") /\ body[pc].k = "verifyq") =>
          /\ pc' = pc + 1
          /\ ret' = Running
          /\ locals' = Append(locals,
                              IF body[pc].e THEN FromOk(ctx[Len(ctx)], Unit)
                              ELSE AbsentOf(ctx[Len(ctx)]))
     /\ (At("verifyq") /\ body[pc].e) =>
          (pc' = pc + 1 /\ ctx' = ctx /\ locals' = locals /\ ret' = Running)
     /\ (At("verifyq") /\ ~body[pc].e /\ ctx # <<>>) =>
          (ret' = Running /\ locals' = Append(locals, AbsentOf(ctx[Len(ctx)])))
     /\ (At("verifyq") /\ ~body[pc].e /\ ctx = <<>>) =>
          (pc' = Done /\ ret' = AbsentOf(retType))]_vars

\* try { verify!(true)? } and try { verify!(false)? }, both of type
\* Option<()>, have been evaluated
C7_Witness ==
  /\ pc = Done
  /\ Len(body) = 5
  /\ body[1] = TryStmt("Option")
  /\ body[2] = EndVerifyTry(TRUE)
  /\ body[3] = TryStmt("Option")
  /\ body[4] = EndVerifyTry(FALSE)
  /\ locals = <<Some(Unit), None>>

\* C8: no hidden state: any two expansions of the same macro on the same
\* boolean, however many expansions of either macro ran before, are
\* classified the same (verify: Some or None; guard: continue or exit).
C8_SameClassification ==
  \A i, j \in DOMAIN hist :
    (hist[i].macro = hist[j].macro /\ hist[i].e = hist[j].e) =>
      hist[i].class = hist[j].class

\* the same expansion ran three times in sequence, after an expansion of the
\* other macro
C8_Witness ==
  /\ Len(hist) = 4
  /\ hist[1].macro = "guard"
  /\ \A i \in 2..4 : hist[i] = [macro |-> "verify", e |-> FALSE, class |-> "None"]

\* every guard of the function is written directly in its body
GuardsDirect == \A i \in 1..Len(body) : body[i].op = "guard" => ~InTry(i)

\* C9: in a function that returns Option and uses guard! directly in its
\* body, the two cfg variants of the expansion (None? and return None) take
\* every reachable state at a guard to the same successor: same return
\* value, same bindings, same next statement.  The statements evaluated do
\* not depend on the cfg either.
C9_VariantsAgree ==
  (retType = "Option" /\ GuardsDirect /\ At("guard")) =>
    GuardEffect(TRUE, body[pc].e) = GuardEffect(FALSE, body[pc].e)

\* the None? variant has returned None from a function returning Option
C9_Witness ==
  /\ feature
  /\ retType = "Option"
  /\ GuardsDirect
  /\ pc = Done
  /\ body = <<GuardStmt(TRUE), GuardStmt(FALSE), TailStmt(10)>>
  /\ trace = <<1, 2>>
  /\ ret = None

\* the body is guard!(p1); ...; guard!(pn); tail, with n >= 1
OnlyGuards ==
  Len(body) >= 2 /\ \A i \in 1..(Len(body) - 1) : body[i].op = "guard"

\* C10: in guard!(p1); ...; guard!(pn); tail the predicates are evaluated in
\* order, each at most once, evaluation stops at the first false predicate,
\* and the function returns the tail's value iff every pi is true.
C10_GuardSequence ==
  OnlyGuards =>
    /\ \A k \in DOMAIN trace : trace[k] = k
    /\ \A k \in DOMAIN trace : \A j \in 1..(k - 1) : body[j].e
    /\ pc # Done => Len(trace) = pc - 1
    /\ pc = Done =>
         /\ (ret = FromOk(retType, I32(body[Len(body)].v))
               <=> \A i \in 1..(Len(body) - 1) : body[i].e)
         /\ (\E i \in 1..(Len(body) - 1) : ~body[i].e) =>
              (~body[Len(trace)].e /\ ret = AbsentOf(retType))

\* three guards, the third false: all three predicates were evaluated, in
\* order, and the tail was not
C10_Witness ==
  /\ pc = Done
  /\ body = <<GuardStmt(TRUE), GuardStmt(TRUE), GuardStmt(FALSE), TailStmt(42)>>
  /\ trace = <<1, 2, 3>>

====
